---------------------------- MODULE Spec2Model ----------------------------
(***************************************************************************)
(* Cochrane_Orcutt.py: the Cochrane-Orcutt regression routine and the      *)
(* dotdict record it returns.                                              *)
(*                                                                         *)
(* Arithmetic.  float64 values are modelled as exact real numbers plus the *)
(* IEEE special values: a number is a record [cls, a, b, q] that stands    *)
(* for a + b*sqrt(q) (a, b, q rationals, cls = "fin"), or for NaN          *)
(* (cls = "nan") or an infinity (cls = "inf").  Rounding is not modelled.  *)
(* Values that are square roots of such numbers (correlation coefficients, *)
(* standard errors, p-values) are kept as terms [cls, f, args]: the        *)
(* function f of the data args they are computed from, with the IEEE     *)
(* class of the value decided exactly.                                     *)
(***************************************************************************)
EXTENDS Integers, Sequences, FiniteSets, TLC

(***************************************************************************)
(* Bounds of the model.                                                    *)
(***************************************************************************)
\* longest input sequence
MaxLen == 4
\* number of record mutations the caller performs after the call returned
MaxMut == 1

\* values the input sequences are drawn from
Vals == {0, 1}

(***************************************************************************)
(* Rationals <<n, d>>, d > 0, in lowest terms.                             *)
(***************************************************************************)
Abs(n) == IF n < 0 THEN -n ELSE n

RECURSIVE Gcd(_, _)
Gcd(m, n) == IF n = 0 THEN m ELSE Gcd(n, m % n)

RNorm(n, d) ==
    LET g == Gcd(Abs(n), Abs(d))
        s == IF d < 0 THEN -1 ELSE 1
    IN  <<s * (n \div g), s * (d \div g)>>

RZero == <<0, 1>>
ROne == <<1, 1>>
RInt(n) == <<n, 1>>
RNeg(x) == <<-x[1], x[2]>>
\* over the least common denominator, to keep the integers small
RAdd(x, y) ==
    IF x[1] = 0 THEN y
    ELSE IF y[1] = 0 THEN x
    ELSE LET g == Gcd(x[2], y[2])
         IN  RNorm(x[1] * (y[2] \div g) + y[1] * (x[2] \div g), (x[2] \div g) * y[2])
RSub(x, y) == RAdd(x, RNeg(y))
\* cross-reduced before multiplying, to keep the integers small
RMul(x, y) ==
    IF x[1] = 0 \/ y[1] = 0 THEN RZero
    ELSE LET u == RNorm(x[1], y[2])
             v == RNorm(y[1], x[2])
         IN  <<u[1] * v[1], u[2] * v[2]>>
RInv(x) == IF x[1] < 0 THEN <<-x[2], -x[1]>> ELSE <<x[2], x[1]>>
RDiv(x, y) == RMul(x, RInv(y))
RSign(x) == IF x[1] > 0 THEN 1 ELSE IF x[1] < 0 THEN -1 ELSE 0
RLess(x, y) == x[1] * y[2] < y[1] * x[2]

\* the integer square root of n >= 0, by bisection on lo..hi
RECURSIVE ISqrtIn(_, _, _)
ISqrtIn(n, lo, hi) ==
    IF lo >= hi THEN lo
    ELSE LET mid == (lo + hi + 1) \div 2
         IN  IF mid * mid <= n THEN ISqrtIn(n, mid, hi) ELSE ISqrtIn(n, lo, mid - 1)
ISqrt(n) == ISqrtIn(n, 0, IF n < 46340 THEN n ELSE 46340)
IsSquare(n) == n >= 0 /\ LET s == ISqrt(n) IN s * s = n
\* a rational >= 0 in lowest terms is a square iff numerator and denominator are
RIsSquare(x) == IsSquare(x[1]) /\ IsSquare(x[2])
RSqrt(x) == <<ISqrt(x[1]), ISqrt(x[2])>>

(***************************************************************************)
(* The operators on numbers and arrays call one another through Apply,     *)
(* defined after them: NAdd(u, v) is Apply("NAdd", <<u, v>>), which is     *)
(* NAddDef(u, v).  They form one recursive definition, so that TLC's       *)
(* coverage statistics hold each of them once and not once for each place  *)
(* it is used in.                                                          *)
(***************************************************************************)
RECURSIVE Apply(_, _)

(***************************************************************************)
(* Numbers: a + b*sqrt(q), NaN, +-inf.  In a finite number b = 0 goes with *)
(* q = 0, and q is not a square when b # 0, so that equal values are equal *)
(* records.                                                                *)
(***************************************************************************)
\* a + b*sqrt(q) for q = 0 or q not a square
Canon(a, b, q) ==
    IF b = RZero \/ q = RZero THEN [cls |-> "fin", a |-> a, b |-> RZero, q |-> RZero]
    ELSE [cls |-> "fin", a |-> a, b |-> b, q |-> q]
\* a + b*sqrt(q) for any q >= 0
Fin(a, b, q) ==
    IF b # RZero /\ RIsSquare(q)
    THEN Canon(RAdd(a, RMul(b, RSqrt(q))), RZero, RZero)
    ELSE Canon(a, b, q)
NaN == [cls |-> "nan", a |-> RZero, b |-> RZero, q |-> RZero]
\* sgn = 1: +inf, sgn = -1: -inf
Inf(sgn) == [cls |-> "inf", a |-> RInt(sgn), b |-> RZero, q |-> RZero]
Num(n) == [cls |-> "fin", a |-> RInt(n), b |-> RZero, q |-> RZero]
Rat(x) == [cls |-> "fin", a |-> x, b |-> RZero, q |-> RZero]

IsFin(u) == u.cls = "fin"
IsNaN(u) == u.cls = "nan"
\* the irrational unit two finite numbers share (one at most occurs in a run)
QOf(u, v) == IF u.b # RZero THEN u.q ELSE v.q

\* the sign of the finite number a + b*sqrt(q)
NSignDef(u) ==
    LET sa == RSign(u.a)
        sb == RSign(u.b)
    IN  IF sb = 0 THEN sa
        ELSE IF sa = 0 \/ sa = sb THEN sb
        ELSE \* opposite signs: compare a^2 with b^2 q
             LET a2 == RMul(u.a, u.a)
                 b2 == RMul(RMul(u.b, u.b), u.q)
             IN  IF RLess(b2, a2) THEN sa ELSE sb
NSign(u) == Apply("NSign", <<u>>)
IsZero(u) == IsFin(u) /\ u.a = RZero /\ u.b = RZero

NNeg(u) ==
    IF u.cls = "fin" THEN [u EXCEPT !.a = RNeg(u.a), !.b = RNeg(u.b)]
    ELSE IF u.cls = "inf" THEN Inf(-u.a[1])
    ELSE NaN

NAddDef(u, v) ==
    IF IsNaN(u) \/ IsNaN(v) THEN NaN
    ELSE IF u.cls = "inf" /\ v.cls = "inf" THEN (IF u.a = v.a THEN u ELSE NaN)
    ELSE IF u.cls = "inf" THEN u
    ELSE IF v.cls = "inf" THEN v
    ELSE Canon(RAdd(u.a, v.a), RAdd(u.b, v.b), QOf(u, v))

NAdd(u, v) == Apply("NAdd", <<u, v>>)

NSub(u, v) == NAdd(u, NNeg(v))

NMulDef(u, v) ==
    IF IsNaN(u) \/ IsNaN(v) THEN NaN
    ELSE IF u.cls = "inf" \/ v.cls = "inf"
         THEN LET su == IF u.cls = "inf" THEN u.a[1] ELSE NSign(u)
                  sv == IF v.cls = "inf" THEN v.a[1] ELSE NSign(v)
              IN  IF su * sv = 0 THEN NaN ELSE Inf(su * sv)
    ELSE LET q == QOf(u, v)
         IN  Canon(RAdd(RMul(u.a, v.a), RMul(RMul(u.b, v.b), q)),
                   RAdd(RMul(u.a, v.b), RMul(u.b, v.a)), q)

NMul(u, v) == Apply("NMul", <<u, v>>)

\* u / v as numpy's float64 divides: x/0 is +-inf, 0/0 is NaN (a
\* RuntimeWarning, no exception)
NDivDef(u, v) ==
    IF IsNaN(u) \/ IsNaN(v) THEN NaN
    ELSE IF v.cls = "inf" THEN (IF u.cls = "inf" THEN NaN ELSE Num(0))
    ELSE IF u.cls = "inf"
         THEN Inf(u.a[1] * (IF NSign(v) < 0 THEN -1 ELSE 1))
    ELSE IF IsZero(v) THEN (IF IsZero(u) THEN NaN ELSE Inf(NSign(u)))
    ELSE LET q == QOf(u, v)
             \* 1 / (c + d sqrt q) = (c - d sqrt q) / (c^2 - d^2 q)
             den == RSub(RMul(v.a, v.a), RMul(RMul(v.b, v.b), q))
             inv == Canon(RDiv(v.a, den), RNeg(RDiv(v.b, den)), q)
         IN  NMul(u, inv)
NDiv(u, v) == Apply("NDiv", <<u, v>>)

(***************************************************************************)
(* Vectors (numpy arrays) are sequences of numbers.                        *)
(***************************************************************************)
RECURSIVE SumTo(_, _)
SumTo(v, k) == IF k = 0 THEN Num(0) ELSE NAdd(SumTo(v, k - 1), v[k])
Sum(v) == SumTo(v, Len(v))

\* ndarray.mean / np.mean: the mean of an empty array is NaN (0/0)
Mean(v) == NDiv(Sum(v), Num(Len(v)))

AllFin(v) == \A i \in 1..Len(v) : IsFin(v[i])
\* np.amax(v) == np.amin(v): all elements are the same number; a comparison
\* with NaN is false
Constant(v) == AllFin(v) /\ \A i \in 1..Len(v) : v[i] = v[1]

Shift(v, c) == [i \in 1..Len(v) |-> NSub(v[i], c)]
Scale(c, v) == [i \in 1..Len(v) |-> NMul(c, v[i])]
VAdd(v, w) == [i \in 1..Len(v) |-> NAdd(v[i], w[i])]
VSub(v, w) == [i \in 1..Len(v) |-> NSub(v[i], w[i])]
AddScalar(v, c) == [i \in 1..Len(v) |-> NAdd(v[i], c)]
CenteredDef(v) == Shift(v, Mean(v))
Centered(v) == Apply("Centered", <<v>>)

\* v[1::] and v[0:-1]
From1(v) == IF Len(v) = 0 THEN <<>> ELSE Tail(v)
UpToLast(v) == IF Len(v) = 0 THEN <<>> ELSE SubSeq(v, 1, Len(v) - 1)

Dot(v, w) == Sum([i \in 1..Len(v) |-> NMul(v[i], w[i])])

\* two vectors are proportional: w = lambda v or v = 0 (the Cauchy-Schwarz
\* equality), decided on the 2 x 2 minors against a pivot
Pivot(v) == CHOOSE i \in 1..Len(v) : ~IsZero(v[i]) /\ \A j \in 1..(i - 1) : IsZero(v[j])
Proportional(v, w) ==
    \/ \A i \in 1..Len(v) : IsZero(v[i])
    \/ LET p == Pivot(v)
       IN  \A i \in 1..Len(v) : NMul(w[i], v[p]) = NMul(w[p], v[i])
\* the sign of lambda for proportional v, w with v # 0
PropSign(v, w) == LET p == Pivot(v) IN NSign(v[p]) * NSign(w[p])

(***************************************************************************)
(* scipy.signal.detrend(data), type 'linear', overwrite_data False: a new  *)
(* array, data minus its least-squares line against the index.  The caller *)
(* guards the two cases in which it raises (an empty array; an array with  *)
(* NaN or inf, refused by linalg.lstsq's check_finite).                    *)
(***************************************************************************)
DetrendRaises(v) == Len(v) = 0 \/ ~AllFin(v)

DetrendDef(v) ==
    IF Len(v) = 1 THEN <<Num(0)>>
    ELSE LET n == Len(v)
             \* 2 (t - mean t), an integer
             t == [i \in 1..n |-> Num(2 * i - n - 1)]
             cy == Centered(v)
             b == NDiv(Dot(t, cy), Dot(t, t))
         IN  VSub(cy, Scale(b, t))
Detrend(v) == Apply("Detrend", <<v>>)

(***************************************************************************)
(* Terms: real values known as a function f of the data they are computed  *)
(* from, with the IEEE class of the value.  Const(u) is the number u.      *)
(***************************************************************************)
Const(u) == [cls |-> u.cls, f |-> "const", args |-> <<u>>]
Term(cls, f, args) == [cls |-> cls, f |-> f, args |-> args]

(***************************************************************************)
(* np.corrcoef(a, b)[0, 1]: the Pearson correlation of two vectors.  NaN   *)
(* when they hold fewer than two elements (the covariance is 0 * 1/0),     *)
(* when an element is NaN, and when a variance is zero (0/0).              *)
(***************************************************************************)
CorrDefined(a, b) ==
    /\ Len(a) >= 2
    /\ AllFin(a) /\ AllFin(b)
    /\ ~Constant(a) /\ ~Constant(b)

Corrcoef(a, b) ==
    Term(IF CorrDefined(a, b) THEN "fin" ELSE "nan", "corrcoef", <<a, b>>)

\* the correlation is exactly 1 (resp. -1): the centered vectors are
\* proportional with a positive (negative) factor
CorrIsDef(c, sgn) ==
    /\ c.cls = "fin"
    /\ LET ca == Centered(c.args[1])
           cb == Centered(c.args[2])
       IN  Proportional(ca, cb) /\ PropSign(ca, cb) = sgn
CorrIs(c, sgn) == Apply("CorrIs", <<c, sgn>>)

\* the correlation of rational data as a number s*sqrt(q),
\* q = sab^2 / (saa sbb)
CorrNumDef(c) ==
    IF c.cls # "fin" THEN NaN
    ELSE LET ca == Centered(c.args[1])
             cb == Centered(c.args[2])
             sab == Dot(ca, cb).a
             saa == Dot(ca, ca).a
             sbb == Dot(cb, cb).a
             q == RMul(RDiv(sab, saa), RDiv(sab, sbb))
         IN  Fin(RZero, RInt(RSign(sab)), q)
CorrNum(c) == Apply("CorrNum", <<c>>)

\* a term is exactly zero: the constant 0, or a standard error of a perfect
\* fit (y constant or exactly linear in x)
PerfectFit(x, y) == Constant(y) \/ Proportional(Centered(x), Centered(y))
TermIsZeroDef(t) ==
    IF t.f = "const" THEN IsZero(t.args[1])
    ELSE /\ t.f \in {"stderr", "intercept_stderr"}
         /\ t.cls = "fin"
         /\ PerfectFit(t.args[1], t.args[2])
TermIsZero(t) == Apply("TermIsZero", <<t>>)

(***************************************************************************)
(* scipy.stats.linregress(x, y).  It raises ValueError on an empty input,  *)
(* on x values that are all identical (len(x) > 1) and, in np.cov, on      *)
(* inputs of different lengths.                                            *)
(***************************************************************************)
\* LinregressRaises without the check for empty inputs
LinregressRaisesNonEmpty(x, y) ==
    \/ Len(x) > 1 /\ Constant(x)
    \/ Len(x) # Len(y)

LinregressRaises(x, y) ==
    \/ Len(x) = 0 \/ Len(y) = 0
    \/ Len(x) > 1 /\ Constant(x)
    \/ Len(x) # Len(y)

\* the second moment of x about 0 in place of its variance
SsxmRaw(x) == NDiv(Dot(x, x), Num(Len(x)))

\* The six outputs, as terms of the data.  ssxm, ssxym, ssym are np.cov(x, y,
\* bias=1); a variance is zero exactly when the vector is constant.
Ssxm(x) == NDiv(Dot(Centered(x), Centered(x)), Num(Len(x)))
Ssxym(x, y) == NDiv(Dot(Centered(x), Centered(y)), Num(Len(x)))

\* slope = ssxym / ssxm
SlopeNum(x, y) == NDiv(Ssxym(x, y), Ssxm(x))
\* intercept = ymean - slope*xmean
InterceptNum(x, y) == NSub(Mean(y), NMul(SlopeNum(x, y), Mean(x)))

Linregress(x, y) ==
    LET n == Len(x)
        fin == AllFin(x) /\ AllFin(y)
        \* ssxm == 0.0 or ssym == 0.0: r = 0.0
        rv == IF Constant(x) \/ Constant(y) THEN Const(Num(0)) ELSE Corrcoef(x, y)
        \* ssxym / ssxm is 0/0 for a single point
        pcls == IF fin /\ n > 1 THEN "fin" ELSE "nan"
        \* n - 2 degrees of freedom; for n = 1 the t statistic and the
        \* standard errors are square roots of something / -1 or 0/0: NaN
        cls == IF fin /\ n > 2 THEN "fin" ELSE "nan"
    IN  [slope |-> Term(pcls, "slope", <<x, y>>),
         intercept |-> Term(pcls, "intercept", <<x, y>>),
         rvalue |-> rv,
         pvalue |-> IF n = 2
                    THEN (IF IsFin(y[1]) /\ y[1] = y[2] THEN Const(Num(1)) ELSE Const(Num(0)))
                    ELSE Term(cls, "pvalue", <<x, y>>),
         stderr |-> IF n = 2 THEN Const(Num(0)) ELSE Term(cls, "stderr", <<x, y>>),
         intercept_stderr |-> IF n = 2 THEN Const(Num(0))
                              ELSE Term(cls, "intercept_stderr", <<x, y>>)]

\* the number a slope or intercept term stands for
TermNumDef(t) ==
    IF t.cls # "fin" THEN NaN
    ELSE IF t.f = "slope" THEN SlopeNum(t.args[1], t.args[2])
    ELSE InterceptNum(t.args[1], t.args[2])
TermNum(t) == Apply("TermNum", <<t>>)

\* DivOneMinus that takes an undefined r for a number
DivOneMinusDefined(se, r) ==
    Term(IF se.cls = "nan" THEN "nan" ELSE "fin", "div_one_minus", <<se, r>>)

\* se / (1 - r) for a standard error se and a correlation r: x/0 is inf,
\* 0/0 is NaN
DivOneMinus(se, r) ==
    Term(IF se.cls = "nan" \/ r.cls = "nan" THEN "nan"
         ELSE IF CorrIs(r, 1) THEN (IF TermIsZero(se) THEN "nan" ELSE "inf")
         ELSE "fin",
         "div_one_minus", <<se, r>>)

Apply(f, a) ==
    CASE f = "NSign" -> NSignDef(a[1])
      [] f = "NAdd" -> NAddDef(a[1], a[2])
      [] f = "NMul" -> NMulDef(a[1], a[2])
      [] f = "NDiv" -> NDivDef(a[1], a[2])
      [] f = "Centered" -> CenteredDef(a[1])
      [] f = "Detrend" -> DetrendDef(a[1])
      [] f = "CorrIs" -> CorrIsDef(a[1], a[2])
      [] f = "CorrNum" -> CorrNumDef(a[1])
      [] f = "TermIsZero" -> TermIsZeroDef(a[1])
      [] f = "TermNum" -> TermNumDef(a[1])

(***************************************************************************)
(* State.  The arrays live in a heap; yt, xt, epsilon and regress are the  *)
(* routine's names, bound to heap objects (0: not bound yet).  Objects 1   *)
(* and 2 are the caller's arrays.                                          *)
(***************************************************************************)
VARIABLES
    yt0, xt0,     \* the contents of the caller's arrays when the call was made
    mean,         \* the mean argument
    heap,         \* the arrays: heap[id] is the contents of object id
    yt, xt, epsilon, regress,   \* names bound to arrays
    r, result, result1,         \* names bound to scalars and regression results
    res,          \* the record (a dotdict): a function from its keys
    pc,           \* the line about to be executed, "returned" or "raised"
    exc,          \* the exception raised
    ran,          \* the lines executed so far
    last,         \* the caller's last operation on the record and its outcome
    nmut          \* the number of mutations of the record by the caller

vars == <<yt0, xt0, mean, heap, yt, xt, epsilon, regress, r, result, result1,
          res, pc, exc, ran, last, nmut>>

Fields == {"slope", "intercept", "pvalue", "rvalue", "stderr", "intercept_stderr"}

Unset == Term("unset", "unset", <<>>)
NoResult == [k \in Fields |-> Unset]
NoRecord == [k \in {} |-> Unset]
NoAccess == [op |-> "none", key |-> "none", val |-> Unset, out |-> "none"]

\* the sequences of length n over Vals
SeqsOfLen(n) == [1..n -> {Num(v) : v \in Vals}]
Inputs == UNION {SeqsOfLen(n) : n \in 0..MaxLen}

Init ==
    /\ yt0 \in Inputs
    /\ xt0 \in Inputs
    /\ mean \in BOOLEAN
    /\ heap = <<yt0, xt0>>
    /\ yt = 1
    /\ xt = 2
    /\ epsilon = 0
    /\ regress = 0
    /\ r = Unset
    /\ result = NoResult
    /\ result1 = NoResult
    /\ res = NoRecord
    /\ pc = "L80"
    /\ exc = "none"
    /\ ran = <<>>
    /\ last = NoAccess
    /\ nmut = 0

\* an expression's value is a new array
New(h, v) == [heap |-> Append(h, v), id |-> Len(h) + 1]

Goto(line, next) ==
    /\ pc' = next
    /\ ran' = Append(ran, line)
    /\ exc' = exc

Raise(line, e) ==
    /\ pc' = "raised"
    /\ ran' = Append(ran, line)
    /\ exc' = e

\* MeanCenter writing into the array x is bound to: xt -= xt.mean()
MeanCenterInPlace(h, x) == [heap |-> [h EXCEPT ![x] = Centered(h[x])], id |-> x]

\* lines 80-81: if mean: xt = xt - xt.mean()
MeanCenter(h, x) == New(h, Centered(h[x]))

\* Center behind a check of the two lengths, made before anything is computed
CenterChecked ==
    /\ pc = "L80"
    /\ IF Len(heap[yt]) # Len(heap[xt])
       THEN Raise(80, "ValueError") /\ UNCHANGED <<heap, xt>>
       ELSE /\ LET c == IF mean THEN MeanCenter(heap, xt) ELSE [heap |-> heap, id |-> xt]
               IN  heap' = c.heap /\ xt' = c.id
            /\ Goto(80, "L82")
    /\ UNCHANGED <<yt0, xt0, mean, yt, epsilon, regress, r, result, result1, res, last, nmut>>

Center ==
    /\ pc = "L80"
    /\ LET c == IF mean THEN MeanCenter(heap, xt) ELSE [heap |-> heap, id |-> xt]
       IN  heap' = c.heap /\ xt' = c.id
    /\ Goto(80, "L82")
    /\ UNCHANGED <<yt0, xt0, mean, yt, epsilon, regress, r, result, result1, res, last, nmut>>

\* line 82: epsilon = signal.detrend(yt)
DetrendStep(line, next) ==
    /\ IF Len(heap[yt]) = 0
       THEN \* reshape(N, -1) of an empty array: ValueError; _prod(dshape) // N
            \* in older scipy: ZeroDivisionError
            /\ \E e \in {"ValueError", "ZeroDivisionError"} : Raise(line, e)
            /\ UNCHANGED <<heap, epsilon>>
       ELSE IF DetrendRaises(heap[yt])
       THEN Raise(line, "ValueError") /\ UNCHANGED <<heap, epsilon>>
       ELSE LET n == New(heap, Detrend(heap[yt]))
            IN  heap' = n.heap /\ epsilon' = n.id /\ Goto(line, next)
    /\ UNCHANGED <<yt0, xt0, mean, yt, xt, regress, r, result, result1, res, last, nmut>>

Detrend1 == pc = "L82" /\ DetrendStep(82, "L83")

\* line 83: r = np.corrcoef(epsilon[1::], epsilon[0:-1])[0, 1]
Autocorr(e) == Corrcoef(From1(e), UpToLast(e))

\* AutocorrStep that estimates r once: line 90 keeps the first estimate
AutocorrStepOnce(line, next) ==
    /\ r' = IF line = 90 THEN r ELSE Autocorr(heap[epsilon])
    /\ Goto(line, next)
    /\ UNCHANGED <<yt0, xt0, mean, heap, yt, xt, epsilon, regress, result, result1, res,
                   last, nmut>>

AutocorrStep(line, next) ==
    /\ r' = Autocorr(heap[epsilon])
    /\ Goto(line, next)
    /\ UNCHANGED <<yt0, xt0, mean, heap, yt, xt, epsilon, regress, result, result1, res,
                   last, nmut>>

Autocorr1 == pc = "L83" /\ AutocorrStep(83, "L84")

\* line 84: result = stats.linregress(xt, yt)
Regress1 ==
    /\ pc = "L84"
    /\ IF LinregressRaises(heap[xt], heap[yt])
       THEN Raise(84, "ValueError") /\ result' = result
       ELSE result' = Linregress(heap[xt], heap[yt]) /\ Goto(84, "L85")
    /\ UNCHANGED <<yt0, xt0, mean, heap, yt, xt, epsilon, regress, r, result1, res, last, nmut>>

\* line 85: regress = result.slope * xt + result.intercept + epsilon
FittedPlusResidual(rs, x, e) ==
    VAdd(AddScalar(Scale(TermNum(rs.slope), x), TermNum(rs.intercept)), e)

Fitted ==
    /\ pc = "L85"
    /\ LET n == New(heap, FittedPlusResidual(result, heap[xt], heap[epsilon]))
       IN  heap' = n.heap /\ regress' = n.id
    /\ Goto(85, "L86")
    /\ UNCHANGED <<yt0, xt0, mean, yt, xt, epsilon, r, result, result1, res, last, nmut>>

\* GenDiff with the two slices exchanged: v[0:-1] - r * v[1::]
GenDiffSwapped(rho, v) == VSub(UpToLast(v), Scale(CorrNum(rho), From1(v)))

\* lines 86, 87: v[1::] - r * v[0:-1]
GenDiff(rho, v) == VSub(From1(v), Scale(CorrNum(rho), UpToLast(v)))

\* line 86: yt = regress[1::] - r * regress[0:-1]
DiffY ==
    /\ pc = "L86"
    /\ LET n == New(heap, GenDiff(r, heap[regress]))
       IN  heap' = n.heap /\ yt' = n.id
    /\ Goto(86, "L87")
    /\ UNCHANGED <<yt0, xt0, mean, xt, epsilon, regress, r, result, result1, res, last, nmut>>

\* line 87: xt = xt[1::] - r * xt[0:-1]
DiffX ==
    /\ pc = "L87"
    /\ LET n == New(heap, GenDiff(r, heap[xt]))
       IN  heap' = n.heap /\ xt' = n.id
    /\ Goto(87, "L88")
    /\ UNCHANGED <<yt0, xt0, mean, yt, epsilon, regress, r, result, result1, res, last, nmut>>

\* line 88: result1 = stats.linregress(xt, yt)
Regress2 ==
    /\ pc = "L88"
    /\ IF LinregressRaises(heap[xt], heap[yt])
       THEN Raise(88, "ValueError") /\ result1' = result1
       ELSE result1' = Linregress(heap[xt], heap[yt]) /\ Goto(88, "L89")
    /\ UNCHANGED <<yt0, xt0, mean, heap, yt, xt, epsilon, regress, r, result, res, last, nmut>>

\* line 89: epsilon = signal.detrend(yt)
Detrend2 == pc = "L89" /\ DetrendStep(89, "L90")

\* line 90: r = np.corrcoef(epsilon[1::], epsilon[0:-1])[0, 1]
Autocorr2 == pc = "L90" /\ AutocorrStep(90, "L91")

\* Record with the point estimates taken from the second regression
RecordOfSecondPass(rs, rs1, rho) ==
    [slope |-> rs1.slope, intercept |-> rs1.intercept, pvalue |-> rs1.pvalue,
     rvalue |-> rs1.rvalue, stderr |-> rs1.stderr,
     intercept_stderr |-> DivOneMinus(rs1.intercept_stderr, rho)]

\* lines 91-96: the record's six entries
Record(rs, rs1, rho) ==
    LET slope_se == rs1.stderr
        intercept_se == DivOneMinus(rs1.intercept_stderr, rho)
        slope == rs.slope
        intercept == rs.intercept
    IN  [slope |-> slope, intercept |-> intercept, pvalue |-> rs.pvalue,
         rvalue |-> rs.rvalue, stderr |-> slope_se, intercept_stderr |-> intercept_se]

Assemble ==
    /\ pc = "L91"
    /\ res' = Record(result, result1, r)
    /\ Goto(91, "L97")
    /\ UNCHANGED <<yt0, xt0, mean, heap, yt, xt, epsilon, regress, r, result, result1,
                   last, nmut>>

\* line 97: return dotdict(res)
Return ==
    /\ pc = "L97"
    /\ Goto(97, "returned")
    /\ UNCHANGED <<yt0, xt0, mean, heap, yt, xt, epsilon, regress, r, result, result1,
                   res, last, nmut>>

Call ==
    \/ Center \/ Detrend1 \/ Autocorr1 \/ Regress1 \/ Fitted \/ DiffY \/ DiffX
    \/ Regress2 \/ Detrend2 \/ Autocorr2 \/ Assemble \/ Return

(***************************************************************************)
(* The caller's operations on the returned dotdict (lines 20-24).  A       *)
(* dotdict is a dict whose __getattr__ is dict.get, __setattr__ is         *)
(* dict.__setitem__ and __delattr__ is dict.__delitem__.                   *)
(***************************************************************************)
\* the names the caller uses: the six fields, a name that is no field, and a
\* name that is an attribute of dict itself
Names == Fields \cup {"other", "keys"}
\* names ordinary attribute lookup finds on the dict class, so that
\* __getattr__ is not called for them
DictAttrs == {"keys"}
\* values the caller writes
WriteVals == {Const(Num(0))}

\* d[k]: dict.__getitem__
ItemOutcome(d, k) ==
    IF k \in DOMAIN d THEN [kind |-> "value", val |-> d[k]]
    ELSE [kind |-> "KeyError", val |-> Unset]

\* d.k: the attribute of the class if there is one, else __getattr__ =
\* dict.get, which returns None for a missing key
AttrOutcome(d, k) ==
    IF k \in DictAttrs THEN [kind |-> "method", val |-> Unset]
    ELSE IF k \in DOMAIN d THEN [kind |-> "value", val |-> d[k]]
    ELSE [kind |-> "None", val |-> Unset]

\* a mapping that ignores assignments
StoredNothing(d, k, v) == d

\* dict.__setitem__ and dict.__delitem__
Stored(d, k, v) == [x \in (DOMAIN d) \cup {k} |-> IF x = k THEN v ELSE d[x]]
Removed(d, k) == [x \in (DOMAIN d) \ {k} |-> d[x]]

Frame == UNCHANGED <<yt0, xt0, mean, heap, yt, xt, epsilon, regress, r, result, result1,
                     pc, exc, ran>>

Read(op, k, o) ==
    /\ last' = [op |-> op, key |-> k, val |-> o.val, out |-> o.kind]
    /\ UNCHANGED <<res, nmut>>
    /\ Frame

Write(op, k, v) ==
    /\ nmut < MaxMut
    /\ res' = Stored(res, k, v)
    /\ nmut' = nmut + 1
    /\ last' = [op |-> op, key |-> k, val |-> v, out |-> "ok"]
    /\ Frame

Delete(op, k) ==
    /\ nmut < MaxMut
    /\ IF k \in DOMAIN res
       THEN /\ res' = Removed(res, k)
            /\ nmut' = nmut + 1
            /\ last' = [op |-> op, key |-> k, val |-> Unset, out |-> "ok"]
       ELSE /\ last' = [op |-> op, key |-> k, val |-> Unset, out |-> "KeyError"]
            /\ UNCHANGED <<res, nmut>>
    /\ Frame

\* res[k]
GetItem == pc = "returned" /\ \E k \in Names : Read("getitem", k, ItemOutcome(res, k))
\* res.k
GetAttr == pc = "returned" /\ \E k \in Names : Read("getattr", k, AttrOutcome(res, k))
\* res[k] = v
SetItem == pc = "returned" /\ \E k \in Names, v \in WriteVals : Write("setitem", k, v)
\* res.k = v
SetAttr == pc = "returned" /\ \E k \in Names, v \in WriteVals : Write("setattr", k, v)
\* del res[k]
DelItem == pc = "returned" /\ \E k \in Names : Delete("delitem", k)
\* del res.k
DelAttr == pc = "returned" /\ \E k \in Names : Delete("delattr", k)

Use == GetItem \/ GetAttr \/ SetItem \/ SetAttr \/ DelItem \/ DelAttr

(***************************************************************************)
(* Spec: calls of Cochrane_Orcutt on all inputs within the bounds.         *)
(* SpecRecord: calls that return a record, followed by the caller's use of *)
(* the record.                                                             *)
(***************************************************************************)
Next == Call

Spec == Init /\ [][Next]_vars

Ramp(n) == [i \in 1..n |-> Num(IF i % 2 = 0 THEN 1 ELSE 0)]
Step(n) == [i \in 1..n |-> Num(IF i > 2 THEN 1 ELSE 0)]

InitRecord ==
    /\ Init
    /\ \E n \in {3, 4} : yt0 = Ramp(n) /\ xt0 = Step(n)

NextRecord == Call \/ Use

SpecRecord == InitRecord /\ [][NextRecord]_vars

(***************************************************************************)
(* The routine as a function of its arguments: the values lines 80-90      *)
(* compute, from the caller's arrays and the mean argument.                *)
(***************************************************************************)
FirstXt == IF mean THEN Centered(xt0) ELSE xt0
FirstEpsilon == Detrend(yt0)
FirstR == Autocorr(FirstEpsilon)
FirstResult == Linregress(FirstXt, yt0)
FirstRegress == FittedPlusResidual(FirstResult, FirstXt, FirstEpsilon)
SecondYt == GenDiff(FirstR, FirstRegress)
SecondXt == GenDiff(FirstR, FirstXt)
SecondResult == Linregress(SecondXt, SecondYt)
SecondEpsilon == Detrend(SecondYt)
SecondR == Autocorr(SecondEpsilon)

\* the lines of a call that returns, in the order they run
FullRun == <<80, 82, 83, 84, 85, 86, 87, 88, 89, 90, 91, 97>>

(***************************************************************************)
(* Properties.                                                             *)
(***************************************************************************)
\* C1: in every returned record slope, intercept, pvalue and rvalue are the
\* outputs of the first regression (yt on the possibly centered xt), stderr
\* is the slope standard error of the second regression (on the transformed
\* series) and intercept_stderr is the second regression's intercept
\* standard error over 1 - r'.
C1_FieldsByPass ==
    pc = "returned" =>
        /\ res.slope = FirstResult.slope
        /\ res.intercept = FirstResult.intercept
        /\ res.pvalue = FirstResult.pvalue
        /\ res.rvalue = FirstResult.rvalue
        /\ LET yt1 == SecondYt
               rs1 == Linregress(SecondXt, yt1)
           IN  /\ res.stderr = rs1.stderr
               /\ res.intercept_stderr =
                      DivOneMinus(rs1.intercept_stderr, Autocorr(Detrend(yt1)))

\* a returned record whose two regressions differ in every output
C1_Witness ==
    /\ pc = "returned"
    /\ \A k \in {"slope", "intercept", "pvalue", "rvalue"} :
           res[k] = result[k] /\ res[k] # result1[k]
    /\ res.stderr = result1.stderr /\ res.stderr # result.stderr

\* the two arrays differ in length
Mismatch == Len(yt0) # Len(xt0)
\* the line that raised
RaisedAt == ran[Len(ran)]

\* C2, as stated: a call on arrays of different lengths computes nothing: no
\* centering, no detrending, no estimate of r, no regression.
C2_FailsBeforeComputing ==
    Mismatch =>
        /\ pc # "returned"
        /\ xt = 2 /\ epsilon = 0 /\ r = Unset /\ result = NoResult

\* C2, amended: a call on arrays of different lengths never gets past the
\* first regression and builds no record; it raises ValueError at line 84,
\* after centering, detrending and the estimate of r have run, or raises at
\* the detrending of line 82 when yt is empty.
C2_FailsAtFirstRegression ==
    Mismatch =>
        /\ pc \in {"L80", "L82", "L83", "L84", "raised"}
        /\ res = NoRecord /\ result = NoResult
        /\ pc = "raised" =>
               IF Len(yt0) = 0
               THEN ran = <<80, 82>>
               ELSE ran = <<80, 82, 83, 84>> /\ exc = "ValueError"

\* a call on arrays of different lengths that failed at line 84, after it
\* centered xt, detrended yt and estimated r
C2_Witness ==
    /\ Mismatch
    /\ pc = "raised" /\ RaisedAt = 84
    /\ xt # 2 /\ heap[xt] # xt0
    /\ epsilon # 0
    /\ r.cls = "fin"

\* C3: a call on arrays of equal length N < 2 raises and never builds or
\* returns a record: at the detrending of line 82 for N = 0, at the second
\* regression (line 88, on the empty transformed series) for N = 1.
C3_ShortInputRaises ==
    Len(yt0) = Len(xt0) /\ Len(yt0) < 2 =>
        /\ pc \notin {"L89", "L90", "L91", "L97", "returned"}
        /\ res = NoRecord
        /\ pc = "raised" =>
               IF Len(yt0) = 0
               THEN ran = <<80, 82>>
               ELSE ran = <<80, 82, 83, 84, 85, 86, 87, 88>> /\ exc = "ValueError"

\* a call on one point that raised at the second regression
C3_Witness ==
    /\ Len(yt0) = 1 /\ Len(xt0) = 1
    /\ pc = "raised" /\ RaisedAt = 88
    /\ result.slope.cls = "nan"
    /\ res = NoRecord

\* equal lengths, N >= 3, neither array constant
NonConstant3 ==
    /\ Len(yt0) = Len(xt0) /\ Len(yt0) >= 3
    /\ ~Constant(yt0) /\ ~Constant(xt0)

\* C4, as stated: on equal-length non-constant arrays of N >= 3 elements the
\* call does not fail, and the record it returns has six finite fields.
C4_AllFinite ==
    NonConstant3 =>
        /\ pc # "raised"
        /\ pc = "returned" => \A k \in Fields : res[k].cls = "fin"

\* C4, amended: every returned record comes from N >= 3 points and has the
\* six fields; slope, intercept, pvalue, rvalue and stderr are finite, and
\* intercept_stderr is finite exactly when r' is defined and not 1.  For
\* N = 3 r' is the correlation of a single pair, undefined, and
\* intercept_stderr is NaN; for N = 4 r' is -1 when it is defined.  A call on
\* non-constant arrays can also raise, at line 88 or 89.
C4_FiniteButInterceptStderr ==
    /\ pc = "returned" =>
           /\ Len(yt0) >= 3
           /\ DOMAIN res = Fields
           /\ \A k \in Fields \ {"intercept_stderr"} : res[k].cls = "fin"
           /\ res.intercept_stderr.cls = "fin" <=> (r.cls = "fin" /\ ~CorrIs(r, 1))
           /\ Len(yt0) = 3 => r.cls = "nan" /\ res.intercept_stderr.cls = "nan"
           /\ Len(yt0) = 4 /\ r.cls = "fin" => CorrIs(r, -1)
    /\ NonConstant3 /\ pc = "raised" => RaisedAt \in {88, 89} /\ exc = "ValueError"

\* a record returned for three non-constant points: r' undefined,
\* intercept_stderr NaN
C4_Witness ==
    /\ NonConstant3 /\ Len(yt0) = 3
    /\ pc = "returned"
    /\ r.cls = "nan" /\ Len(r.args[1]) = 1
    /\ res.intercept_stderr.cls = "nan"

\* C5, as stated: once returned, the record is the one the routine built,
\* with the six keys, whatever the caller does with it.
C5_Immutable ==
    pc = "returned" => res = Record(result, result1, r) /\ DOMAIN res = Fields

\* C5, amended: the routine does not touch the record after it returned it
\* (it is the one it built until the caller writes), but the caller's
\* assignments and deletions, by key or by attribute, change it: after an
\* assignment the key holds the assigned value, after a deletion the key is
\* gone.
C5_ChangedOnlyByCaller ==
    pc = "returned" =>
        /\ nmut = 0 => res = Record(result, result1, r)
        /\ last.op \in {"setitem", "setattr"} =>
               last.key \in DOMAIN res /\ res[last.key] = last.val
        /\ last.op \in {"delitem", "delattr"} => last.key \notin DOMAIN res

\* the caller assigned to the attribute slope, and the field changed
C5_Witness ==
    /\ pc = "returned"
    /\ last.op = "setattr" /\ last.key = "slope"
    /\ res.slope = last.val /\ res.slope # result.slope

\* C6, as stated: an untouched returned record has exactly the six keys, and
\* d[k] and d.k have the same outcome for every name k, a field or not.
C6_SameAccess ==
    pc = "returned" /\ nmut = 0 =>
        /\ DOMAIN res = Fields
        /\ \A k \in Names : ItemOutcome(res, k) = AttrOutcome(res, k)

\* the caller read the attribute other of an untouched record and got None,
\* where the key other raises KeyError
C6_Witness ==
    /\ pc = "returned" /\ nmut = 0
    /\ last.op = "getattr" /\ last.key = "other" /\ last.out = "None"
    /\ ItemOutcome(res, "other").kind = "KeyError"

\* C7: the caller's two arrays (objects 1 and 2) hold what they held when
\* the call was made, at every step of every call.
C7_InputsUnchanged ==
    /\ Len(heap) >= 2
    /\ heap[1] = yt0
    /\ heap[2] = xt0

\* a returned call with mean true on an xt of non-zero mean: xt and yt were
\* rebound to new arrays
C7_Witness ==
    /\ pc = "returned" /\ mean
    /\ FirstXt # xt0
    /\ xt # 2 /\ yt # 1
    /\ heap[2] = xt0

\* C8: the slope of a returned record is the slope of the regression of yt on
\* the xt the caller passed, whether mean is true or false; with mean true
\* the intercept is the mean of yt.
C8_SlopeUnaffectedByCentering ==
    pc = "returned" =>
        /\ res.slope.cls = "fin"
        /\ TermNum(res.slope) = SlopeNum(xt0, yt0)
        /\ TermNum(res.intercept) = IF mean THEN Mean(yt0) ELSE InterceptNum(xt0, yt0)

\* a returned call with mean true in which centering moved xt and the
\* intercept
C8_Witness ==
    /\ pc = "returned" /\ mean
    /\ FirstXt # xt0
    /\ TermNum(res.intercept) # InterceptNum(xt0, yt0)
    /\ TermNum(res.slope) = SlopeNum(xt0, yt0)

\* C9: a call that returns runs lines 83 and 90 once each, in that order;
\* the first estimate r is what the transform of both series uses, and the
\* divisor of the intercept standard error is 1 - r', r' being the second
\* estimate, from the residuals of detrending the transformed yt.
C9_TwoEstimates ==
    /\ pc = "returned" => ran = FullRun
    /\ pc \in {"L84", "L85", "L86", "L87", "L88", "L89", "L90"} => r = FirstR
    /\ pc = "L88" =>
           /\ heap[yt] = GenDiff(r, heap[regress])
           /\ heap[xt] = GenDiff(r, FirstXt)
    /\ pc \in {"L91", "L97", "returned"} =>
           /\ r = Autocorr(Detrend(heap[yt]))
           /\ r # FirstR
    /\ pc \in {"L97", "returned"} =>
           /\ res.intercept_stderr.f = "div_one_minus"
           /\ res.intercept_stderr.args = <<result1.intercept_stderr, r>>

\* a returned record whose two estimates of r are both defined
C9_Witness ==
    /\ pc = "returned"
    /\ FirstR.cls = "fin" /\ SecondR.cls = "fin"
    /\ FirstR # SecondR
    /\ res.intercept_stderr.args[2] = SecondR

\* C10: for inputs of length N the transformed yt and xt have length N - 1,
\* element i being regress[i+1] - r regress[i] and xt[i+1] - r xt[i] (xt the
\* centered series when mean is true), and r' is the correlation of the N - 2
\* pairs (epsilon'[i+1], epsilon'[i]).
C10_TransformShape ==
    LET N == Len(yt0)
    IN  /\ pc = "L88" =>
               LET rho == CorrNum(r)
               IN  /\ Len(heap[yt]) = N - 1 /\ Len(heap[xt]) = N - 1
                   /\ \A i \in 1..(N - 1) :
                          /\ heap[yt][i] =
                                 NSub(heap[regress][i + 1], NMul(rho, heap[regress][i]))
                          /\ heap[xt][i] = NSub(FirstXt[i + 1], NMul(rho, FirstXt[i]))
        /\ pc = "L91" =>
               /\ Len(heap[epsilon]) = N - 1
               /\ r.f = "corrcoef"
               /\ Len(r.args[1]) = N - 2 /\ Len(r.args[2]) = N - 2
               /\ \A i \in 1..(N - 2) :
                      /\ r.args[1][i] = heap[epsilon][i + 1]
                      /\ r.args[2][i] = heap[epsilon][i]

\* the second estimate of a call on four points: two pairs
C10_Witness ==
    /\ pc = "L91"
    /\ Len(yt0) = 4
    /\ Len(r.args[1]) = 2
    /\ r.cls = "fin"

=============================================================================
